---- MODULE Spec2Model ----
(***************************************************************************)
(* Bengali transcriber: the chunked-transcription orchestrator, the        *)
(* timestamp reconciliation, the transcript parser (app.py) and the        *)
(* persistence helpers (app.py, pages/2_My_Transcripts.py, models.py),     *)
(* and the browser sessions of main() and of the My Transcripts page: one  *)
(* step of a session is one run of the script.                             *)
(*                                                                         *)
(* Text is modelled as a sequence of tokens.  A token is a unit that the   *)
(* two regular expressions of app.py (lines 145 and 231) treat as a whole: *)
(*   "tag"    a bracketed time tag [h:m:s.ms]; it matches the tag pattern  *)
(*            \[(\d{2}):(\d{2}):(\d{2})\.(\d{3})\] when every field has    *)
(*            the pattern's width (IsTag)                                  *)
(*   "sp","nl" a blank and a line feed (both \s)                           *)
(*   "SPK"    the speaker word exactly as it is spelled in the string      *)
(*            literals of app.py (lines 210 and 231)                       *)
(*   "BN"     the Bengali speaker word U+09AC U+0995 U+09CD U+09A4 U+09BE  *)
(*            of the specification's example; app.py spells its literal    *)
(*            with other characters, so it is a different string           *)
(*   "d1","d2" two digits (\d), "q" a question mark, "colon" a colon       *)
(*   "hello","world" ordinary words                                        *)
(*   "err"    the substring "Error:" (app.py line 170 and 203)             *)
(*   "reason" the rest of the message of line 170                          *)
(*   "failed" the text "[TRANSCRIPTION FAILED]" of line 210                *)
(***************************************************************************)
EXTENDS Integers, Sequences, FiniteSets, TLC

VARIABLES
    pc,                 \* position of the transcription job and of main()'s handler
    duration_ms,        \* len(processed_audio), app.py line 182
    num_chunks,         \* app.py line 189
    i,                  \* loop index of app.py line 193
    calls,              \* the audio windows handed to _transcribe_chunk, in call order
    raws,               \* what each call of _transcribe_chunk did, in call order
    all_transcriptions, \* app.py line 191
    raw_transcription,  \* value returned by transcribe_audio_with_gemini, line 337
    transcript_data,    \* st.session_state.transcript_data
    raw_output_shown,   \* the "Raw Output" text area of line 340 is shown
    users,              \* table users (models.py 9-14)
    transcripts,        \* table transcripts (models.py 25-36)
    now,                \* the wall clock read by datetime.utcnow
    saves,              \* number of rows ever inserted in transcripts (history)
    gone,               \* id and owner of the row deleted last (history)
    last,               \* the last persistence call and what it returned (history)
    sess,               \* st.session_state of every browser session
    adds                \* position of every session inside add_new_user

jobvars == <<pc, duration_ms, num_chunks, i, calls, raws, all_transcriptions,
             raw_transcription, transcript_data, raw_output_shown>>
dbvars == <<users, transcripts, now, saves, gone, last>>
uivars == <<sess, adds>>
vars == <<pc, duration_ms, num_chunks, i, calls, raws, all_transcriptions,
          raw_transcription, transcript_data, raw_output_shown,
          users, transcripts, now, saves, gone, last, sess, adds>>

(***************************************************************************)
(* Bounds of the model.                                                    *)
(***************************************************************************)
MaxChunks == 3
MaxSaves == 2
MaxClock == 1

(***************************************************************************)
(* Program constants.                                                      *)
(***************************************************************************)
CHUNK_LENGTH_MINUTES == 10
CHUNK_LENGTH_MS == CHUNK_LENGTH_MINUTES * 60 * 1000

(***************************************************************************)
(* Tokens and texts.                                                       *)
(***************************************************************************)
Tag(h, m, s, ms) == [k |-> "tag", h |-> h, m |-> m, s |-> s, ms |-> ms]
Tok(kind) == [k |-> kind, h |-> 0, m |-> 0, s |-> 0, ms |-> 0]

sp == Tok("sp")
nl == Tok("nl")
colon == Tok("colon")

\* \[(\d{2}):(\d{2}):(\d{2})\.(\d{3})\]: two, two, two and three digits
IsTag(t) ==
    t.k = "tag" /\ t.h \in 0..99 /\ t.m \in 0..99 /\ t.s \in 0..99 /\ t.ms \in 0..999
IsWs(t) == t.k \in {"sp", "nl"}
IsDigit(t) == t.k \in {"d1", "d2"}
IsQ(t) == t.k = "q"

\* the time a tag denotes, in milliseconds
TagMs(t) == ((t.h * 3600 + t.m * 60 + t.s) * 1000) + t.ms

\* "\n".join(list)
RECURSIVE JoinNl(_)
JoinNl(list) ==
    IF list = <<>> THEN <<>>
    ELSE IF Len(list) = 1 THEN list[1]
    ELSE list[1] \o <<nl>> \o JoinNl(Tail(list))

\* str.strip(): leading and trailing white space removed
RECURSIVE LStrip(_)
LStrip(txt) ==
    IF txt # <<>> /\ IsWs(txt[1]) THEN LStrip(Tail(txt)) ELSE txt
RECURSIVE RStrip(_)
RStrip(txt) ==
    IF txt # <<>> /\ IsWs(txt[Len(txt)]) THEN RStrip(SubSeq(txt, 1, Len(txt) - 1)) ELSE txt
Strip(txt) == RStrip(LStrip(txt))

(***************************************************************************)
(* _offset_timestamps (app.py 135-146).                                    *)
(***************************************************************************)
\* faulty variant of replacer: the offset time is rendered without its
\* milliseconds
replacer_NoMs(t, offset_seconds) ==
    LET total == ((TagMs(t) + offset_seconds * 1000) \div 1000) * 1000
        secs == total \div 1000
    IN  Tag(secs \div 3600, (secs % 3600) \div 60, secs % 60, 0)

\* timedelta arithmetic, then f"[{new_h:02d}:{new_m:02d}:{new_s:02d}.{new_ms:03d}]"
replacer(t, offset_seconds) ==
    LET total == TagMs(t) + offset_seconds * 1000
        secs == total \div 1000
    IN  Tag(secs \div 3600, (secs % 3600) \div 60, secs % 60, total % 1000)

\* pattern.sub(replacer, transcription_text)
_offset_timestamps(transcription_text, offset_seconds) ==
    [p \in 1..Len(transcription_text) |->
        IF IsTag(transcription_text[p])
        THEN replacer(transcription_text[p], offset_seconds)
        ELSE transcription_text[p]]

(***************************************************************************)
(* parse_timestamped_transcription (app.py 230-236).                       *)
(***************************************************************************)
\* first position from p on that does not satisfy Is (Len + 1 when none)
SkipWs(txt, p) ==
    CHOOSE q \in p..(Len(txt) + 1) :
        /\ \A r \in p..(q - 1) : IsWs(txt[r])
        /\ q = Len(txt) + 1 \/ ~IsWs(txt[q])
SkipDigits(txt, p) ==
    CHOOSE q \in p..(Len(txt) + 1) :
        /\ \A r \in p..(q - 1) : IsDigit(txt[r])
        /\ q = Len(txt) + 1 \/ ~IsDigit(txt[q])
SkipQ(txt, p) ==
    CHOOSE q \in p..(Len(txt) + 1) :
        /\ \A r \in p..(q - 1) : IsQ(txt[r])
        /\ q = Len(txt) + 1 \/ ~IsQ(txt[q])
\* the lookahead (?=\[\d{2}:\d{2}:\d{2}\.\d{3}\]|\Z) after the lazy [\s\S]*?
NextTag(txt, p) ==
    CHOOSE q \in p..(Len(txt) + 1) :
        /\ \A r \in p..(q - 1) : ~IsTag(txt[r])
        /\ q = Len(txt) + 1 \/ IsTag(txt[q])

NoMatch == [ok |-> FALSE, spFrom |-> 0, spTo |-> 0, textFrom |-> 0, end |-> 0]

\* the group (SPK\s*\d+|\?+) tried at position a: the position after it, 0 when
\* neither alternative matches
SpeakerEnd(txt, a) ==
    IF a > Len(txt) THEN 0
    ELSE IF txt[a].k = "SPK"
         THEN LET b == SkipWs(txt, a + 1)
                  c == SkipDigits(txt, b)
              IN  IF c > b THEN c ELSE 0
    ELSE IF IsQ(txt[a]) THEN SkipQ(txt, a)
    ELSE 0

\* the pattern of line 231 tried at position p
MatchAt(txt, p) ==
    IF ~(p <= Len(txt) /\ IsTag(txt[p])) THEN NoMatch
    ELSE LET a == SkipWs(txt, p + 1)
             c == SpeakerEnd(txt, a)
         IN  IF c = 0 THEN NoMatch
             ELSE LET e == SkipWs(txt, c)
                  IN  IF ~(e <= Len(txt) /\ txt[e].k = "colon") THEN NoMatch
                      ELSE LET f == SkipWs(txt, e + 1)
                           IN  [ok |-> TRUE, spFrom |-> a, spTo |-> c - 1,
                                textFrom |-> f, end |-> NextTag(txt, f)]

\* line 234-235: one dictionary of data; time_sec is held in thousandths of a
\* second (the float int(h)*3600 + int(m)*60 + int(s) + int(ms)/1000.0)
Segment(txt, p, mt, n) ==
    [id |-> n,
     time_sec |-> TagMs(txt[p]),
     timestamp |-> <<txt[p].h, txt[p].m, txt[p].s>>,
     speaker |-> Strip(SubSeq(txt, mt.spFrom, mt.spTo)) \o <<colon>>,
     text |-> Strip(SubSeq(txt, mt.textFrom, mt.end - 1))]

\* pattern.finditer(raw_text) from position p on, n matches found so far
RECURSIVE FindIter(_, _, _)
FindIter(txt, p, n) ==
    IF p > Len(txt) THEN <<>>
    ELSE LET mt == MatchAt(txt, p)
         IN  IF mt.ok
             THEN <<Segment(txt, p, mt, n)>> \o FindIter(txt, mt.end, n + 1)
             ELSE FindIter(txt, p + 1, n)

\* faulty variant of parse_timestamped_transcription: the matches are listed
\* last first
parse_timestamped_transcription_Reversed(raw_text) ==
    LET found == FindIter(raw_text, 1, 0)
    IN  [k \in 1..Len(found) |-> found[Len(found) + 1 - k]]
\* the list comprehension over enumerate(pattern.finditer(raw_text))
parse_timestamped_transcription(raw_text) == FindIter(raw_text, 1, 0)

(***************************************************************************)
(* What the external API can do on one call of _transcribe_chunk           *)
(* (app.py 148-174).                                                       *)
(***************************************************************************)
SPK == Tok("SPK")
BN == Tok("BN")
d1 == Tok("d1")
d2 == Tok("d2")
q == Tok("q")
hello == Tok("hello")
world == Tok("world")
err == Tok("err")
reason == Tok("reason")
failed == Tok("failed")

\* an answer whose second entry is earlier than its first
OutOfOrder ==
    <<Tag(0, 0, 8, 0), SPK, d1, colon, hello, nl,
      Tag(0, 0, 4, 0), SPK, d2, colon, world>>

\* texts of response.parts[0].text
ApiTexts ==
    { <<Tag(0, 1, 0, 0), sp, SPK, sp, d1, colon, sp, hello>>,
      <<Tag(0, 0, 5, 0), sp, BN, sp, d1, colon, sp, hello, nl,
        Tag(0, 0, 10, 0), sp, BN, sp, d2, colon, sp, world>>,
      <<Tag(0, 0, 5, 0), sp, SPK, sp, d1, colon, sp, hello, nl,
        Tag(0, 9, 59, 999), sp, SPK, d2, sp, colon, world, sp, hello, nl>>,
      <<hello, sp, world>>,
      <<>>,
      <<Tag(0, 0, 7, 250), sp, SPK, sp, d1, colon, sp, hello, sp, err, sp, world>>,
      <<Tag(99, 59, 59, 500), SPK, d1, colon, hello>>,
      <<Tag(0, 0, 3, 0), sp, q, q, colon, sp, hello>>,
      OutOfOrder }

\* a call returns a text, finds no parts (a block reason), or raises an API error
Outcomes ==
    [kind : {"text"}, text : ApiTexts]
        \cup {[kind |-> "blocked", text |-> <<>>], [kind |-> "raise", text |-> <<>>]}

\* _transcribe_chunk: lines 167-171; an exception of lines 163-166 propagates
_transcribe_chunk(o) ==
    IF o.kind = "raise" THEN [raised |-> TRUE, value |-> <<>>]
    ELSE IF o.kind = "blocked" THEN [raised |-> FALSE, value |-> <<err, sp, reason>>]
    ELSE [raised |-> FALSE, value |-> o.text]

(***************************************************************************)
(* transcribe_audio_with_gemini (app.py 176-212).                          *)
(***************************************************************************)
\* faulty variant of NumChunks: the quotient is rounded down
NumChunks_Floor(d) == d \div CHUNK_LENGTH_MS
\* math.ceil(duration_ms / CHUNK_LENGTH_MS), line 189
NumChunks(d) == (d + CHUNK_LENGTH_MS - 1) \div CHUNK_LENGTH_MS

Min(a, b) == IF a <= b THEN a ELSE b

\* processed_audio[start_ms:end_ms]: the slice ends at the end of the audio
Window(start_ms, end_ms, d) == [start |-> Min(start_ms, d), end |-> Min(end_ms, d)]

\* faulty variant of IsFailure: "Error:" is looked for at the start of the text
IsFailure_Prefix(raw) == raw = <<>> \/ raw[1].k = "err"
\* line 203: not raw_chunk_transcription or "Error:" in raw_chunk_transcription
IsFailure(raw) == raw = <<>> \/ \E p \in 1..Len(raw) : raw[p].k = "err"

\* faulty variant of Sentinel: the tag is the end of the chunk, not its start
Sentinel_NextStart(start_ms) ==
    LET secs == (start_ms + CHUNK_LENGTH_MS) \div 1000
    IN  <<Tag(secs \div 3600, (secs % 3600) \div 60, secs % 60, 0),
          sp, SPK, sp, q, colon, sp, failed>>
\* lines 208-210: the entry appended for a failed chunk
Sentinel(start_ms) ==
    LET secs == start_ms \div 1000
    IN  <<Tag(secs \div 3600, (secs % 3600) \div 60, secs % 60, 0),
          sp, SPK, sp, q, colon, sp, failed>>

\* lines 198-210: the entry of one chunk
ChunkEntry(res, start_ms) ==
    IF res.raised \/ IsFailure(res.value) THEN Sentinel(start_ms)
    ELSE _offset_timestamps(res.value, start_ms \div 1000)

NoneData == [isNone |-> TRUE, v |-> <<>>]
Some(x) == [isNone |-> FALSE, v |-> x]

\* a transcript saved earlier, as the sidebar loads it
SavedContent ==
    <<[id |-> 0, time_sec |-> 2000, timestamp |-> <<0, 0, 2>>,
       speaker |-> <<SPK, sp, d1, colon>>, text |-> <<world>>]>>

Durations ==
    {k * CHUNK_LENGTH_MS + e : k \in 0..MaxChunks, e \in {-1, 0, 1}}
        \cap 0..(MaxChunks * CHUNK_LENGTH_MS)

JobInit ==
    /\ pc = "idle"
    /\ duration_ms = 0
    /\ num_chunks = 0
    /\ i = 0
    /\ calls = <<>>
    /\ raws = <<>>
    /\ all_transcriptions = <<>>
    /\ raw_transcription = <<>>
    /\ transcript_data = NoneData
    /\ raw_output_shown = FALSE

\* app.py 299-304: a saved transcript is loaded from the sidebar
SidebarLoad ==
    /\ pc = "idle"
    /\ transcript_data = NoneData
    /\ transcript_data' = Some(SavedContent)
    /\ UNCHANGED <<pc, duration_ms, num_chunks, i, calls, raws, all_transcriptions,
                   raw_transcription, raw_output_shown>>

\* lines 178-191: the audio is decoded and measured
Begin ==
    /\ pc = "idle"
    /\ \E d \in Durations :
        /\ duration_ms' = d
        /\ IF d <= CHUNK_LENGTH_MS
           THEN pc' = "short" /\ num_chunks' = 0
           ELSE pc' = "loop" /\ num_chunks' = NumChunks(d)
    /\ i' = 0
    /\ all_transcriptions' = <<>>
    /\ UNCHANGED <<calls, raws, raw_transcription, transcript_data, raw_output_shown>>

\* lines 183-187: the whole audio in one call, its result returned as it is
ShortCall ==
    /\ pc = "short"
    /\ \E o \in Outcomes :
        LET res == _transcribe_chunk(o)
        IN  /\ calls' = <<Window(0, duration_ms, duration_ms)>>
            /\ raws' = <<o>>
            /\ IF res.raised
               THEN pc' = "raised" /\ UNCHANGED raw_transcription
               ELSE pc' = "returned" /\ raw_transcription' = res.value
    /\ UNCHANGED <<duration_ms, num_chunks, i, all_transcriptions, transcript_data,
                   raw_output_shown>>

\* lines 193-212: one iteration of the loop; the last one joins and returns
ChunkCall ==
    /\ pc = "loop"
    /\ i < num_chunks
    /\ \E o \in Outcomes :
        LET start_ms == i * CHUNK_LENGTH_MS
            end_ms == (i + 1) * CHUNK_LENGTH_MS
            res == _transcribe_chunk(o)
            all == Append(all_transcriptions, ChunkEntry(res, start_ms))
        IN  /\ calls' = Append(calls, Window(start_ms, end_ms, duration_ms))
            /\ raws' = Append(raws, o)
            /\ all_transcriptions' = all
            /\ i' = i + 1
            /\ IF i + 1 = num_chunks
               THEN pc' = "returned" /\ raw_transcription' = JoinNl(all)
               ELSE UNCHANGED <<pc, raw_transcription>>
    /\ UNCHANGED <<duration_ms, num_chunks, transcript_data, raw_output_shown>>

\* faulty variant of ParseStep: an empty parse leaves the session's transcript
ParseStep_KeepOld ==
    /\ pc = "returned"
    /\ LET data == parse_timestamped_transcription(raw_transcription)
       IN  /\ transcript_data' = IF data = <<>> THEN transcript_data ELSE Some(data)
           /\ raw_output_shown' = (data = <<>>)
    /\ pc' = "done"
    /\ UNCHANGED <<duration_ms, num_chunks, i, calls, raws, all_transcriptions,
                   raw_transcription>>
\* main(), lines 338-343: the returned text is parsed into the session
ParseStep ==
    /\ pc = "returned"
    /\ LET data == parse_timestamped_transcription(raw_transcription)
       IN  /\ transcript_data' = Some(data)
           /\ raw_output_shown' = (data = <<>>)
    /\ pc' = "done"
    /\ UNCHANGED <<duration_ms, num_chunks, i, calls, raws, all_transcriptions,
                   raw_transcription>>

\* line 348: the review/edit/save/export section is rendered
ReviewSectionShown == ~transcript_data.isNone /\ transcript_data.v # <<>>

(***************************************************************************)
(* The relational store (database.py, models.py) and its helpers.          *)
(***************************************************************************)
Usernames == {"alice", "bob"}
Passwords == {"pw"}
Roles == {"user", "admin"}

\* what a session saves: a title, the uploaded file's name and the segment list
OtherContent ==
    <<[id |-> 0, time_sec |-> 0, timestamp |-> <<0, 0, 0>>,
       speaker |-> <<SPK, sp, d1, colon>>, text |-> <<hello>>],
      [id |-> 1, time_sec |-> 1500, timestamp |-> <<0, 0, 1>>,
       speaker |-> <<SPK, sp, d2, colon>>, text |-> <<world>>]>>
Docs ==
    { [title |-> "t1", filename |-> "a.wav", content |-> SavedContent],
      [title |-> "t2", filename |-> "b.mp3", content |-> OtherContent] }

\* User.set_password (models.py 19-20) and check_password (22-23)
generate_password_hash(password) == <<"hash", password>>
check_password(user, password) == user.hashed_password = generate_password_hash(password)

Max(S) == CHOOSE x \in S : \A y \in S : y <= x

\* Column(Integer, primary_key=True) on SQLite (models.py 11 and 28,
\* database.py 8): an INTEGER PRIMARY KEY without AUTOINCREMENT, so a new row
\* gets one more than the largest id in the table
NewId(table) == IF table = {} THEN 1 ELSE Max({r.id : r \in table}) + 1

NoDoc == [title |-> "", filename |-> "", content |-> <<>>]
NoCall ==
    [op |-> "none", name |-> "", uid |-> 0, id |-> 0, doc |-> NoDoc, ok |-> FALSE,
     msg |-> "", rows |-> <<>>]
NotGone == [id |-> 0, owner_id |-> 0]

DbInit ==
    /\ users = {}
    /\ transcripts = {}
    /\ now = 0
    /\ saves = 0
    /\ gone = NotGone
    /\ last = NoCall

\* the two values add_new_user returns (lines 63 and 68), as (success, message)
AddReturns ==
    { [ok |-> TRUE, msg |-> "created"], [ok |-> FALSE, msg |-> "User already exists."] }

\* faulty variant of add_new_user: the existence test of line 62 is missing
add_new_user_Unchecked(username, password, role, ret) ==
    /\ users' = users \cup
            {[id |-> NewId(users), username |-> username,
              hashed_password |-> generate_password_hash(password), role |-> role]}
    /\ ret = [ok |-> TRUE, msg |-> "created"]
    /\ UNCHANGED <<transcripts, now, saves>>
\* add_new_user (app.py 59-70), called when no other call of it is in progress;
\* ret is the value it returns
add_new_user(username, password, role, ret) ==
    /\ IF \E u \in users : u.username = username
       THEN /\ ret = [ok |-> FALSE, msg |-> "User already exists."]
            /\ UNCHANGED users
       ELSE /\ users' = users \cup
                    {[id |-> NewId(users), username |-> username,
                      hashed_password |-> generate_password_hash(password),
                      role |-> role]}
            /\ ret = [ok |-> TRUE, msg |-> "created"]
    /\ UNCHANGED <<transcripts, now, saves>>

\* faulty variant of save_transcript_to_db: a row of the same owner is overwritten
save_transcript_to_db_InPlace(user_id, title, filename, content, at, fails) ==
    /\ saves < MaxSaves
    /\ IF fails
       THEN UNCHANGED <<transcripts, saves>>
       ELSE /\ transcripts' =
                    {t \in transcripts : t.owner_id # user_id} \cup
                    {[id |-> NewId({t \in transcripts : t.owner_id # user_id}),
                      title |-> title,
                      original_filename |-> filename, content |-> content,
                      created_at |-> at, owner_id |-> user_id, serial |-> saves + 1]}
            /\ saves' = saves + 1
    /\ now' = at
    /\ UNCHANGED users
\* save_transcript_to_db (app.py 79-95); created_at is datetime.utcnow read when
\* the row is flushed (models.py 32); fails is an exception of add or commit, and
\* the function returns False then and True otherwise
save_transcript_to_db(user_id, title, filename, content, at, fails) ==
    /\ saves < MaxSaves
    /\ IF fails
       THEN UNCHANGED <<transcripts, saves>>
       ELSE /\ transcripts' = transcripts \cup
                    {[id |-> NewId(transcripts), title |-> title,
                      original_filename |-> filename, content |-> content,
                      created_at |-> at, owner_id |-> user_id, serial |-> saves + 1]}
            /\ saves' = saves + 1
    /\ now' = at
    /\ UNCHANGED users

\* faulty variant of OrderedDesc: ascending order
OrderedDesc_Asc(rows) ==
    {r \in [1..Cardinality(rows) -> rows] :
        /\ \A a, b \in 1..Cardinality(rows) : a # b => r[a] # r[b]
        /\ \A a, b \in 1..Cardinality(rows) : a < b => r[a].created_at <= r[b].created_at}
\* the lists a query ... order_by(created_at.desc()).all() can return: every
\* arrangement of the rows with created_at not increasing (the order of rows with
\* equal created_at is not determined by the query)
OrderedDesc(rows) ==
    {r \in [1..Cardinality(rows) -> rows] :
        /\ \A a, b \in 1..Cardinality(rows) : a # b => r[a] # r[b]
        /\ \A a, b \in 1..Cardinality(rows) : a < b => r[a].created_at >= r[b].created_at}

\* get_user_transcripts (app.py 97-102, pages/2_My_Transcripts.py 16-21)
Listings(user_id) == OrderedDesc({t \in transcripts : t.owner_id = user_id})

get_user_transcripts(user_id) ==
    /\ \E rows \in Listings(user_id) :
        last' = [NoCall EXCEPT !.op = "list", !.uid = user_id, !.ok = TRUE, !.rows = rows]
    /\ UNCHANGED <<users, transcripts, now, saves, gone>>

\* faulty variant of delete_transcript_from_db: the delete is not committed
delete_transcript_from_db_NoCommit(transcript_id, ret) ==
    /\ ret = (\E t \in transcripts : t.id = transcript_id)
    /\ UNCHANGED transcripts
    /\ UNCHANGED <<users, now, saves>>
\* delete_transcript_from_db (pages/2_My_Transcripts.py 23-33); ret is the value
\* it returns
delete_transcript_from_db(transcript_id, ret) ==
    /\ ret = (\E t \in transcripts : t.id = transcript_id)
    /\ transcripts' = {t \in transcripts : t.id # transcript_id}
    /\ UNCHANGED <<users, now, saves>>

\* the wall clock advances between two calls
Tick ==
    /\ now < MaxClock
    /\ now' = now + 1
    /\ last' = NoCall
    /\ UNCHANGED <<users, transcripts, saves, gone>>

\* The calls of the helpers one after the other, each recorded in last (and a
\* deleted row in gone).
AddNewUser ==
    \E username \in Usernames, password \in Passwords, role \in Roles, ret \in AddReturns :
        /\ add_new_user(username, password, role, ret)
        /\ last' = [NoCall EXCEPT !.op = "add_new_user", !.name = username,
                                  !.ok = ret.ok, !.msg = ret.msg]
        /\ UNCHANGED gone

SaveTranscript ==
    \E u \in users, doc \in Docs, at \in now..Min(now + 1, MaxClock), fails \in BOOLEAN :
        /\ save_transcript_to_db(u.id, doc.title, doc.filename, doc.content, at, fails)
        /\ last' = [NoCall EXCEPT !.op = "save", !.uid = u.id, !.ok = ~fails,
                                  !.id = IF fails THEN 0 ELSE NewId(transcripts),
                                  !.doc = doc]
        /\ UNCHANGED gone

GetUserTranscripts == \E u \in users : get_user_transcripts(u.id)

DeleteTranscript ==
    \E id \in 1..MaxSaves, ret \in BOOLEAN :
        /\ delete_transcript_from_db(id, ret)
        /\ last' = [NoCall EXCEPT !.op = "delete", !.id = id, !.ok = ret]
        /\ gone' = IF ret
                   THEN [id |-> id,
                         owner_id |-> (CHOOSE t \in transcripts : t.id = id).owner_id]
                   ELSE gone

(***************************************************************************)
(* Browser sessions: st.session_state and the runs of main() (app.py       *)
(* 278-394) and of the My Transcripts page (pages/2_My_Transcripts.py      *)
(* 38-120).  One action is one run of a page: the widget the user touched, *)
(* its handler and the rest of the script.  The key selected_model has one *)
(* value here and is left out of the record.                               *)
(***************************************************************************)
Sessions == {"s1", "s2"}

\* file_id of an uploaded file, its name and os.path.splitext(name)[0]
FileIds == {1, 2}
FileName == "a.wav"
FileStem == "a"

\* the title typed in save_form_2, the passwords typed in login_form
TypedTitles == {"t1"}
LoginPasswords == Passwords \cup {"bad"}

NoneStr == "None"
\* value of delete_confirmation_id while session_state has no such key
NoKey == -1

english == Tok("english")
edited == Tok("edited")

NotLoaded == [serial |-> 0, owner_id |-> 0]

\* line 280: the state written by the first run of main()
SessionInit ==
    [authenticated |-> FALSE, username |-> NoneStr, user_id |-> 0, role |-> NoneStr,
     transcript_data |-> NoneData, speaker_map |-> {}, last_uploaded_file_id |-> 0,
     current_transcript_title |-> "Untitled Transcript", original_filename |-> NoneStr,
     edit_mode |-> FALSE, translate_mode |-> FALSE, translated_data |-> NoneData,
     delete_confirmation_id |-> NoKey,
     has_file |-> FALSE,   \* the file uploader of line 325 holds a file
     aliased |-> FALSE,    \* translated_data and transcript_data are one list object
     loaded |-> NotLoaded, \* the stored row transcript_data came from
     clicked |-> 0,        \* serial of the row whose delete button set the id
     pending |-> 0,        \* id whose "Yes, Delete" run has listed and not yet deleted
     entered |-> NoneStr]  \* the password of the login form that was accepted

\* create_admin.py 33-37: the first admin user
Admin ==
    [id |-> 1, username |-> "alice", hashed_password |-> generate_password_hash("pw"),
     role |-> "admin"]

\* authenticate_user (app.py 49-57)
authenticate_user_AnyPassword(username, password) ==
    {u \in users : u.username = username}
authenticate_user(username, password) ==
    {u \in users : u.username = username /\ check_password(u, password)}

\* A speaker map is held as the set of its keys; the names they map to are not
\* modelled.
\* lines 302 and 89: sorted(list(set(d['speaker'] for d in t.content))), sp: sp
UniqueSpeakers(content) == {content[n].speaker : n \in 1..Len(content)}

\* identify_speaker_names (app.py 220-228): a name for each of the labels
identify_speaker_names(content) == UniqueSpeakers(content)

Truthy(d) == ~d.isNone /\ d.v # <<>>

\* what json.loads(cleaned_response) gives on one call of the translation API
TranslateOutcomes == {"same", "shorter", "longer", "malformed"}
translated_texts(n, o) ==
    [k \in 1..(IF o = "shorter" THEN n - 1 ELSE IF o = "longer" THEN n + 1 ELSE n)
        |-> <<english>>]

\* _translate_text_with_gemini (app.py 112-133)
_translate_text_with_gemini_Padded(data, o) ==
    IF o = "malformed" THEN NoneData
    ELSE Some([k \in 1..Len(translated_texts(Len(data), o)) |->
                  [data[Min(k, Len(data))] EXCEPT !.text = translated_texts(Len(data), o)[k]]])
_translate_text_with_gemini(data, o) ==
    IF o = "malformed" THEN NoneData
    ELSE IF Len(translated_texts(Len(data), o)) # Len(data) THEN NoneData
    ELSE Some([k \in 1..Len(data) |->
                  [data[k] EXCEPT !.text = translated_texts(Len(data), o)[k]]])

\* lines 352-355 of a run that reaches the review section: the API is called
\* when translate_mode is on and there is no translation yet
Attempts(ss) ==
    IF ss.translate_mode /\ ss.translated_data.isNone THEN TranslateOutcomes
    ELSE {"not called"}

Translated(ss, o) ==
    IF ss.translate_mode /\ ss.translated_data.isNone
    THEN LET translated_result == _translate_text_with_gemini(ss.transcript_data.v, o)
         IN  IF Truthy(translated_result)
             THEN [ss EXCEPT !.translated_data = translated_result, !.aliased = FALSE]
             ELSE ss
    ELSE ss

\* line 348 onwards: the list that is displayed, edited and exported
display_data(ss) ==
    IF ss.translate_mode /\ Truthy(ss.translated_data) THEN ss.translated_data.v
    ELSE ss.transcript_data.v

UiInit ==
    /\ sess = [s \in Sessions |-> SessionInit]
    /\ adds = [s \in Sessions |-> [pc |-> "idle", name |-> "", role |-> "", result |-> "none"]]

\* the state after create_admin.py has run and every session has opened the app
AppInit ==
    /\ JobInit
    /\ users = {Admin}
    /\ transcripts = {}
    /\ now = 0
    /\ saves = 0
    /\ gone = NotGone
    /\ last = NoCall
    /\ UiInit

\* the rows a page draws for a user: those of get_user_transcripts(user_id)
\* (app.py 296, pages/2_My_Transcripts.py 50-51)
Offered(user_id) == UNION {{rows[n] : n \in 1..Len(rows)} : rows \in Listings(user_id)}

Ready(s) == sess[s].pending = 0
LoggedIn(s) == Ready(s) /\ sess[s].authenticated

\* lines 282-289: the login form is submitted
Login(s) ==
    /\ Ready(s)
    /\ ~sess[s].authenticated
    /\ \E username \in Usernames, password \in LoginPasswords :
        LET found == authenticate_user(username, password)
        IN  IF found # {}
            THEN LET user == CHOOSE u \in found : TRUE
                 IN  /\ sess' = [sess EXCEPT ![s].authenticated = TRUE,
                                             ![s].username = user.username,
                                             ![s].user_id = user.id,
                                             ![s].role = user.role,
                                             ![s].entered = password]
            ELSE /\ sess' = sess
    /\ UNCHANGED <<jobvars, dbvars, adds>>

\* faulty variant of Logout: only the flag authenticated is cleared
Logout_KeepKeys(s) ==
    /\ LoggedIn(s)
    /\ sess' = [sess EXCEPT ![s].authenticated = FALSE]
    /\ UNCHANGED <<jobvars, dbvars, adds>>
\* lines 292-294: every key is deleted, and the rerun starts at line 279
Logout(s) ==
    /\ LoggedIn(s)
    /\ sess' = [sess EXCEPT ![s] = SessionInit]
    /\ UNCHANGED <<jobvars, dbvars, adds>>

\* lines 296-304: a row of the sidebar list is clicked
LoadFromSidebar(s) ==
    /\ LoggedIn(s)
    /\ \E t \in Offered(sess[s].user_id) :
        /\ sess' = [sess EXCEPT ![s].transcript_data = Some(t.content),
                                    ![s].current_transcript_title = t.title,
                                    ![s].original_filename = t.original_filename,
                                    ![s].speaker_map = UniqueSpeakers(t.content),
                                    ![s].translate_mode = FALSE,
                                    ![s].translated_data = NoneData,
                                    ![s].aliased = FALSE,
                                    ![s].loaded = [serial |-> t.serial,
                                                   owner_id |-> t.owner_id]]
    /\ UNCHANGED <<jobvars, dbvars, adds>>

\* lines 314-323: the admin panel's form is submitted; the run goes on to the
\* review section when there is a transcript
AdminAddUser(s) ==
    /\ LoggedIn(s)
    /\ sess[s].role = "admin"
    /\ \E username \in Usernames, password \in Passwords, role \in Roles,
          ret \in AddReturns :
        add_new_user(username, password, role, ret)
    /\ IF Truthy(sess[s].transcript_data)
       THEN \E o \in Attempts(sess[s]) : sess' = [sess EXCEPT ![s] = Translated(sess[s], o)]
       ELSE sess' = sess
    /\ UNCHANGED <<jobvars, gone, last, adds>>

\* lines 327-329: the upload check
UploadCheck(ss, file_id) ==
    IF file_id # ss.last_uploaded_file_id
    THEN [ss EXCEPT !.transcript_data = NoneData, !.loaded = NotLoaded, !.speaker_map = {},
                    !.last_uploaded_file_id = file_id, !.original_filename = FileName,
                    !.current_transcript_title = FileStem,
                    !.translate_mode = FALSE, !.translated_data = NoneData,
                    !.aliased = FALSE]
    ELSE ss

\* lines 325-330: a run with a file in the uploader, a new one or the one that
\* was there in the run before
Upload(s) ==
    /\ LoggedIn(s)
    /\ \E file_id \in FileIds :
        /\ file_id = sess[s].last_uploaded_file_id => sess[s].has_file
        /\ LET checked == [UploadCheck(sess[s], file_id) EXCEPT !.has_file = TRUE]
           IN  IF Truthy(checked.transcript_data)
               THEN \E o \in Attempts(checked) :
                        sess' = [sess EXCEPT ![s] = Translated(checked, o)]
               ELSE sess' = [sess EXCEPT ![s] = checked]
    /\ UNCHANGED <<jobvars, dbvars, adds>>

\* the texts the API returns in the runs of the sessions: one text for each
\* number of segments
AppOutcomes ==
    {o \in Outcomes :
        o.kind = "text" =>
            /\ Len(parse_timestamped_transcription(o.text)) # 1
            /\ o.text # OutOfOrder}

\* lines 332-347: "2. Transcribe Audio" on an audio of one chunk
Transcribe(s) ==
    /\ LoggedIn(s)
    /\ sess[s].has_file
    /\ \E o \in AppOutcomes :
        LET res == _transcribe_chunk(o)
            data == parse_timestamped_transcription(res.value)
            cleared == [sess[s] EXCEPT !.translate_mode = FALSE,
                                       !.translated_data = NoneData, !.aliased = FALSE]
        IN  /\ sess' = [sess EXCEPT ![s] =
                    IF res.raised THEN cleared
                    ELSE IF data = <<>>
                    THEN [cleared EXCEPT !.transcript_data = Some(data),
                                         !.loaded = NotLoaded]
                    ELSE [cleared EXCEPT !.transcript_data = Some(data),
                                         !.loaded = NotLoaded,
                                         !.speaker_map = identify_speaker_names(data),
                                         !.edit_mode = FALSE]]
    /\ UNCHANGED <<jobvars, dbvars, adds>>

\* lines 348-358: a run of the review section with the two toggles as the user
\* left them
Review(s) ==
    /\ LoggedIn(s)
    /\ Truthy(sess[s].transcript_data)
    /\ \E translate_mode \in BOOLEAN, edit_mode \in BOOLEAN :
        LET toggled == [sess[s] EXCEPT !.translate_mode = translate_mode,
                                       !.edit_mode = edit_mode]
        IN  \E o \in Attempts(toggled) :
                sess' = [sess EXCEPT ![s] = Translated(toggled, o)]
    /\ UNCHANGED <<jobvars, dbvars, adds>>

\* line 367: the text areas of edit_form write into display_data
Edit(list) == [list EXCEPT ![1].text = <<edited>>]

\* lines 359-372: "Apply Edits & Return to View Mode"; display_data is the list
\* object of the session that is shown, so the edit changes it in place
ApplyEdits(s) ==
    /\ LoggedIn(s)
    /\ Truthy(sess[s].transcript_data)
    /\ sess[s].edit_mode
    /\ \E o \in Attempts(sess[s]) :
        LET ss == Translated(sess[s], o)
            shown == Some(Edit(display_data(ss)))
            onTranslation == ss.translate_mode /\ Truthy(ss.translated_data)
        IN  sess' = [sess EXCEPT ![s] =
                IF onTranslation
                THEN [ss EXCEPT !.translated_data = shown,
                                !.transcript_data = IF ss.aliased THEN shown ELSE @,
                                !.edit_mode = FALSE]
                ELSE IF ss.translate_mode
                THEN [ss EXCEPT !.transcript_data = shown, !.translated_data = shown,
                                !.aliased = TRUE, !.edit_mode = FALSE]
                ELSE [ss EXCEPT !.transcript_data = shown,
                                !.translated_data = IF ss.aliased THEN shown ELSE @,
                                !.edit_mode = FALSE]]
    /\ UNCHANGED <<jobvars, dbvars, adds>>

\* lines 376-381: save_form_2 is submitted, with the title it shows or with one
\* of the titles typed
Save(s, typed) ==
    /\ LoggedIn(s)
    /\ Truthy(sess[s].transcript_data)
    /\ \E title \in typed \cup {sess[s].current_transcript_title},
          fails \in BOOLEAN, o \in Attempts(sess[s]) :
        LET ss == Translated(sess[s], o)
        IN  /\ save_transcript_to_db(ss.user_id, title, ss.original_filename,
                                     ss.transcript_data.v, now, fails)
            /\ sess' = [sess EXCEPT ![s] =
                    IF fails THEN ss ELSE [ss EXCEPT !.current_transcript_title = title]]
    /\ UNCHANGED <<jobvars, gone, last, adds>>

\* pages/2_My_Transcripts.py 46-48, in a run that passed the check of line 38;
\* the uploader of the main page is not drawn, so its file is dropped
PageState(ss) ==
    [ss EXCEPT !.delete_confirmation_id = IF @ = NoKey THEN 0 ELSE @,
               !.has_file = FALSE]

\* the page is opened: lines 38-51
PageOpen(s) ==
    /\ Ready(s)
    /\ IF sess[s].authenticated
       THEN /\ sess' = [sess EXCEPT ![s] = PageState(sess[s])]
       ELSE /\ sess' = sess
    /\ UNCHANGED <<jobvars, dbvars, adds>>

\* lines 85-94: "Load" of a row
PageLoad(s) ==
    /\ LoggedIn(s)
    /\ \E t \in Offered(sess[s].user_id) :
        /\ sess' = [sess EXCEPT ![s] =
                    [PageState(sess[s]) EXCEPT !.transcript_data = Some(t.content),
                                               !.current_transcript_title = t.title,
                                               !.original_filename = t.original_filename,
                                               !.speaker_map = UniqueSpeakers(t.content),
                                               !.aliased = FALSE,
                                               !.loaded = [serial |-> t.serial,
                                                           owner_id |-> t.owner_id]]]
    /\ UNCHANGED <<jobvars, dbvars, adds>>

\* faulty variant of PageDeleteClick: the row is deleted at the first click
PageDeleteClick_NoConfirm(s) ==
    /\ LoggedIn(s)
    /\ \E t \in Offered(sess[s].user_id) :
        /\ sess' = [sess EXCEPT ![s] =
                    [PageState(sess[s]) EXCEPT !.delete_confirmation_id = t.id,
                                               !.clicked = t.serial]]
        /\ transcripts' = transcripts \ {t}
    /\ UNCHANGED <<jobvars, users, now, saves, gone, last, adds>>
\* lines 99-101: the delete button of a row
PageDeleteClick(s) ==
    /\ LoggedIn(s)
    /\ \E t \in Offered(sess[s].user_id) :
        /\ sess' = [sess EXCEPT ![s] =
                    [PageState(sess[s]) EXCEPT !.delete_confirmation_id = t.id,
                                               !.clicked = t.serial]]
    /\ UNCHANGED <<jobvars, dbvars, adds>>

\* lines 50-51 and 105-109 of the run in which "Yes, Delete" was clicked: the
\* rows are listed and the row with the dialog is reached
PageYesListed(s) ==
    /\ LoggedIn(s)
    /\ \E t \in Offered(sess[s].user_id) :
        /\ sess[s].delete_confirmation_id = t.id
            /\ sess' = [sess EXCEPT ![s] = [PageState(sess[s]) EXCEPT !.pending = t.id]]
    /\ UNCHANGED <<jobvars, dbvars, adds>>

\* lines 110-116 of that run: delete_transcript_from_db(t.id) in a transaction of
\* its own; other sessions may have used the store since the rows were listed
PageYesDelete(s) ==
    /\ sess[s].pending # 0
    /\ \E ret \in BOOLEAN :
        /\ delete_transcript_from_db(sess[s].pending, ret)
        /\ sess' = IF ret
                   THEN [sess EXCEPT ![s].delete_confirmation_id = 0,
                                     ![s].clicked = 0, ![s].pending = 0]
                   ELSE [sess EXCEPT ![s].pending = 0]
    /\ UNCHANGED <<jobvars, gone, last, adds>>

\* lines 118-120: "Cancel"
PageCancel(s) ==
    /\ LoggedIn(s)
    /\ \E t \in Offered(sess[s].user_id) :
        /\ sess[s].delete_confirmation_id = t.id
            /\ sess' = [sess EXCEPT ![s] =
                    [PageState(sess[s]) EXCEPT !.delete_confirmation_id = 0,
                                               !.clicked = 0]]
    /\ UNCHANGED <<jobvars, dbvars, adds>>

\* one browser session and every widget of the two pages
SessionNext ==
    \E s \in {"s1"} :
        \/ Login(s)
        \/ Logout(s)
        \/ LoadFromSidebar(s)
        \/ Upload(s)
        \/ Transcribe(s)
        \/ Review(s)
        \/ ApplyEdits(s)
        \/ Save(s, TypedTitles)
        \/ PageOpen(s)
        \/ PageLoad(s)

SpecSession == AppInit /\ [][SessionNext]_vars

\* one browser session, the admin panel and the users it adds
GateNext ==
    \E s \in {"s1"} :
        \/ Login(s)
        \/ Logout(s)
        \/ AdminAddUser(s)
        \/ LoadFromSidebar(s)
        \/ Upload(s)
        \/ Transcribe(s)
        \/ Review(s)
        \/ Save(s, {})
        \/ PageOpen(s)
        \/ PageLoad(s)
        \/ PageDeleteClick(s)
        \/ PageYesListed(s)
        \/ PageYesDelete(s)
        \/ PageCancel(s)

SpecGate == AppInit /\ [][GateNext]_vars

\* a user added by the admin panel before the sessions start
Bob ==
    [id |-> 2, username |-> "bob", hashed_password |-> generate_password_hash("pw"),
     role |-> "user"]

\* transcripts saved before the sessions start; their serials are below those
\* of the rows saved later
Stored ==
    { [id |-> 1, title |-> FileStem, original_filename |-> FileName,
       content |-> SavedContent, created_at |-> 0, owner_id |-> 2, serial |-> -2],
      [id |-> 2, title |-> FileStem, original_filename |-> FileName,
       content |-> SavedContent, created_at |-> 0, owner_id |-> 1, serial |-> -1] }

SharedInit ==
    /\ JobInit
    /\ users = {Admin, Bob}
    /\ transcripts = Stored
    /\ now = 0
    /\ saves = 0
    /\ gone = NotGone
    /\ last = NoCall
    /\ UiInit

\* several browser sessions on one store: the widgets that read or write it
AppNext ==
    \E s \in Sessions :
        \/ Login(s)
        \/ Logout(s)
        \/ LoadFromSidebar(s)
        \/ Save(s, {})
        \/ PageDeleteClick(s)
        \/ PageYesListed(s)
        \/ PageYesDelete(s)
        \/ PageCancel(s)

SpecApp == SharedInit /\ [][AppNext]_vars

\* one browser session that finds an older transcript in the store, and every
\* way a transcript or its translation gets into the session
LoadNext ==
    \E s \in {"s1"} :
        \/ Login(s)
        \/ LoadFromSidebar(s)
        \/ Upload(s)
        \/ Transcribe(s)
        \/ Review(s)
        \/ ApplyEdits(s)
        \/ PageOpen(s)
        \/ PageLoad(s)

SpecLoad == SharedInit /\ [][LoadNext]_vars

(***************************************************************************)
(* add_new_user (app.py 59-70) statement by statement, for sessions whose  *)
(* calls overlap.  Each call has its own SessionLocal; the query of line   *)
(* 62 and the commit of line 67 are separate statements on the store.      *)
(***************************************************************************)
\* line 62 (and 63 when the name is found)
AddUserCheck(s) ==
    /\ adds[s].pc = "idle"
    /\ \E username \in Usernames, role \in Roles :
        adds' = [adds EXCEPT ![s] =
            IF \E u \in users : u.username = username
            THEN [pc |-> "done", name |-> username, role |-> role, result |-> "exists"]
            ELSE [pc |-> "checked", name |-> username, role |-> role, result |-> "none"]]
    /\ UNCHANGED <<jobvars, dbvars, sess>>

\* lines 64-68: the INSERT is flushed by commit(); the unique index on
\* users.username (models.py 12) rejects a second row of the name with an
\* IntegrityError, which no except clause of add_new_user catches
AddUserCommit(s) ==
    /\ adds[s].pc = "checked"
    /\ IF \E u \in users : u.username = adds[s].name
       THEN /\ adds' = [adds EXCEPT ![s].pc = "done", ![s].result = "raised"]
            /\ UNCHANGED users
       ELSE /\ users' = users \cup
                    {[id |-> NewId(users), username |-> adds[s].name,
                      hashed_password |-> generate_password_hash("pw"),
                      role |-> adds[s].role]}
            /\ adds' = [adds EXCEPT ![s].pc = "done", ![s].result = "created"]
    /\ UNCHANGED <<jobvars, transcripts, now, saves, gone, last, sess>>

\* the form of line 316 can be submitted again
AddUserAgain(s) ==
    /\ adds[s].pc = "done"
    /\ adds' = [adds EXCEPT ![s] = [pc |-> "idle", name |-> "", role |-> "",
                                    result |-> "none"]]
    /\ UNCHANGED <<jobvars, dbvars, sess>>

RaceNext == \E s \in Sessions : AddUserCheck(s) \/ AddUserCommit(s) \/ AddUserAgain(s)

SpecRace == AppInit /\ [][RaceNext]_vars

(***************************************************************************)
(* Specifications.                                                         *)
(***************************************************************************)
Init == JobInit /\ DbInit /\ UiInit

Next ==
    \/ SidebarLoad /\ UNCHANGED <<dbvars, uivars>>
    \/ Begin /\ UNCHANGED <<dbvars, uivars>>
    \/ ShortCall /\ UNCHANGED <<dbvars, uivars>>
    \/ ChunkCall /\ UNCHANGED <<dbvars, uivars>>
    \/ ParseStep /\ UNCHANGED <<dbvars, uivars>>

Spec == Init /\ [][Next]_vars

StoreNext ==
    \/ AddNewUser /\ UNCHANGED <<jobvars, uivars>>
    \/ SaveTranscript /\ UNCHANGED <<jobvars, uivars>>
    \/ GetUserTranscripts /\ UNCHANGED <<jobvars, uivars>>
    \/ DeleteTranscript /\ UNCHANGED <<jobvars, uivars>>
    \/ Tick /\ UNCHANGED <<jobvars, uivars>>

SpecStore == Init /\ [][StoreNext]_vars

(***************************************************************************)
(* Properties of the transcription job.                                    *)
(***************************************************************************)
Returned == pc \in {"returned", "done"}
MultiChunk == duration_ms > CHUNK_LENGTH_MS

\* the chunk of the j-th call: reported a block reason, raised, or was counted
\* as failed by the loop; Kept is a returned transcription that is offset
Blocked(j) == raws[j].kind = "blocked"
Raised(j) == raws[j].kind = "raise"
Kept(j) ==
    /\ raws[j].kind = "text"
    /\ raws[j].text # <<>>
    /\ \A p \in 1..Len(raws[j].text) : raws[j].text[p].k # "err"

\* the number of chunks of audio of d milliseconds: ceil(d / chunk length)
CeilChunks(d) ==
    CHOOSE n \in 0..(MaxChunks + 1) :
        (n - 1) * CHUNK_LENGTH_MS < d /\ d <= n * CHUNK_LENGTH_MS

CountKind(txt, kind) == Cardinality({p \in 1..Len(txt) : txt[p].k = kind})

\* where the j-th entry starts in the newline-joined text
RECURSIVE EntryStart(_, _)
EntryStart(list, j) ==
    IF j = 1 THEN 1 ELSE EntryStart(list, j - 1) + Len(list[j - 1]) + 1

\* txt is the entries of list, in order, with one line feed between two entries
IsJoinOf(txt, list) ==
    /\ list # <<>>
    /\ Len(txt) = EntryStart(list, Len(list)) + Len(list[Len(list)]) - 1
    /\ \A j \in 1..Len(list) :
        /\ SubSeq(txt, EntryStart(list, j), EntryStart(list, j) + Len(list[j]) - 1) = list[j]
        /\ j < Len(list) => txt[EntryStart(list, j) + Len(list[j])] = nl

\* entry is the sentinel of the chunk that starts at start_ms
IsSentinelAt(entry, start_ms) ==
    /\ Len(entry) >= 2
    /\ entry[1].k = "tag"
    /\ TagMs(entry[1]) = start_ms
    /\ CountKind(entry, "tag") = 1
    /\ CountKind(entry, "failed") = 1
    /\ entry[Len(entry)].k = "failed"

\* entry is raw with every tag moved by offset_ms and nothing else changed
IsOffsetOf(entry, raw, offset_ms) ==
    /\ Len(entry) = Len(raw)
    /\ \A p \in 1..Len(raw) :
        IF IsTag(raw[p])
        THEN /\ entry[p].k = "tag"
             /\ TagMs(entry[p]) = TagMs(raw[p]) + offset_ms
             /\ entry[p].ms = raw[p].ms
             /\ entry[p].m \in 0..59
             /\ entry[p].s \in 0..59
        ELSE entry[p] = raw[p]

\* C1: in a multi-chunk job every chunk whose call reports a block reason has
\* exactly one sentinel entry, tagged with the chunk's start offset, at the
\* chunk's position among the N newline-joined entries, and every other chunk
\* is still sent to the API and has its own entry at its own position.
C1_BlockedChunkSentinel ==
    (Returned /\ MultiChunk) =>
        LET N == CeilChunks(duration_ms)
        IN  /\ Len(calls) = N
            /\ Len(all_transcriptions) = N
            /\ IsJoinOf(raw_transcription, all_transcriptions)
            /\ \A j \in 1..N :
                Blocked(j) =>
                    /\ IsSentinelAt(all_transcriptions[j], (j - 1) * CHUNK_LENGTH_MS)
                    /\ \A n \in 1..N :
                        n # j =>
                            /\ calls[n].start = (n - 1) * CHUNK_LENGTH_MS
                            /\ IF Kept(n)
                               THEN IsOffsetOf(all_transcriptions[n], raws[n].text,
                                               (n - 1) * CHUNK_LENGTH_MS)
                               ELSE IsSentinelAt(all_transcriptions[n],
                                                 (n - 1) * CHUNK_LENGTH_MS)
            /\ CountKind(raw_transcription, "failed")
                    = Cardinality({j \in 1..N : ~Kept(j)})

C1_Witness ==
    /\ pc = "done"
    /\ num_chunks = 3
    /\ Kept(1) /\ Blocked(2) /\ Kept(3)
    /\ all_transcriptions[2][1] = Tag(0, 10, 0, 0)

\* C2: after parsing the merged text of a job with a failed chunk, the segment
\* list holds exactly one sentinel segment for that chunk: time_sec the chunk's
\* start offset, the unknown-speaker label, the text [TRANSCRIPTION FAILED].
C2_SentinelSegmentParsed ==
    (pc = "done" /\ MultiChunk) =>
        \A j \in 1..Len(raws) :
            ~Kept(j) =>
                Cardinality(
                    {n \in 1..Len(transcript_data.v) :
                        /\ transcript_data.v[n].time_sec = (j - 1) * CHUNK_LENGTH_MS
                        /\ transcript_data.v[n].speaker \in
                                {<<SPK, sp, q, colon>>, <<BN, sp, q, colon>>}
                        /\ transcript_data.v[n].text = <<failed>>}) = 1

\* C3: for audio of every duration a failed transcription call (an error string
\* or a raised API error) never aborts the job: transcribe_audio_with_gemini
\* does not raise and returns text holding the sentinel for the failed chunk.
C3_NeverAborts ==
    /\ pc # "raised"
    /\ Returned =>
        \A j \in 1..Len(raws) :
            (Blocked(j) \/ Raised(j)) => CountKind(raw_transcription, "failed") >= 1

\* C4: one call when the duration is at most the chunk length, ceil(d / L)
\* calls otherwise; the windows are [i*L, min((i+1)*L, d)), contiguous, not
\* overlapping, ascending, and together cover [0, d).
C4_ChunkWindows ==
    /\ \A n \in 1..Len(calls) :
        /\ calls[n].start = (n - 1) * CHUNK_LENGTH_MS
        /\ calls[n].end = Min(n * CHUNK_LENGTH_MS, duration_ms)
        /\ calls[n].start <= calls[n].end
        /\ calls[n].end - calls[n].start <= CHUNK_LENGTH_MS
        /\ n > 1 => calls[n].start = calls[n - 1].end /\ calls[n - 1].end > calls[n - 1].start
    /\ pc \in {"returned", "done", "raised"} =>
        /\ Len(calls) = IF duration_ms <= CHUNK_LENGTH_MS THEN 1
                        ELSE CeilChunks(duration_ms)
        /\ calls[1].start = 0
        /\ calls[Len(calls)].end = duration_ms

C4_Witness ==
    /\ pc = "done"
    /\ duration_ms = 2 * CHUNK_LENGTH_MS + 1
    /\ Len(calls) = 3
    /\ calls[3] = [start |-> 2 * CHUNK_LENGTH_MS, end |-> 2 * CHUNK_LENGTH_MS + 1]

BengaliExample ==
    <<Tag(0, 0, 5, 0), sp, BN, sp, d1, colon, sp, hello, nl,
      Tag(0, 0, 10, 0), sp, BN, sp, d2, colon, sp, world>>

\* C6: text of n entries "[HH:MM:SS.mmm] <speaker-label>: <text>" with Bengali
\* speaker labels parses to n segments in order; the example yields two
\* segments with time_sec 5.0 and 10.0, its two labels, and the texts hello
\* and world.
C6_BengaliEntriesParsed ==
    (pc = "done" /\ raw_transcription = BengaliExample) =>
        /\ Len(transcript_data.v) = 2
        /\ transcript_data.v[1].time_sec = 5000
        /\ transcript_data.v[2].time_sec = 10000
        /\ transcript_data.v[1].text = <<hello>>
        /\ transcript_data.v[2].text = <<world>>

AllIn(txt, from, to, kinds) == \A r \in from..to : txt[r].k \in kinds

\* some place of txt matches the pattern of an entry: a tag, white space, a
\* speaker word with digits or a run of question marks, white space, a colon
HasEntry(txt) ==
    \E p \in 1..Len(txt) :
        /\ IsTag(txt[p])
        /\ \E a \in (p + 1)..Len(txt) :
            /\ AllIn(txt, p + 1, a - 1, {"sp", "nl"})
            /\ txt[a].k \in {"SPK", "q"}
            /\ \E c \in (a + 1)..Len(txt) :
                /\ \/ /\ txt[a].k = "q"
                      /\ AllIn(txt, a, c - 1, {"q"})
                   \/ /\ txt[a].k = "SPK"
                      /\ \E b \in (a + 1)..(c - 1) :
                            /\ AllIn(txt, a + 1, b - 1, {"sp", "nl"})
                            /\ AllIn(txt, b, c - 1, {"d1", "d2"})
                /\ \E e \in c..Len(txt) :
                    /\ AllIn(txt, c, e - 1, {"sp", "nl"})
                    /\ txt[e].k = "colon"

\* C7: raw text that is empty or has no entry matching the pattern parses to an
\* empty list; the raw text is then shown, transcript_data is empty and the
\* review/edit/save/export section is not rendered.
C7_UnmatchableTextEmptyList ==
    pc = "done" =>
        /\ ~HasEntry(raw_transcription) => transcript_data = Some(<<>>)
        /\ transcript_data.v = <<>> =>
            /\ ~transcript_data.isNone
            /\ raw_output_shown
            /\ ~ReviewSectionShown

C7_Witness ==
    /\ pc = "done"
    /\ raw_transcription = <<hello, sp, world>>
    /\ transcript_data = Some(<<>>)
    /\ raw_output_shown

(***************************************************************************)
(* Properties of the store.  A step is recognised by the call it leaves in *)
(* last; primed variables are the store after the call.                    *)
(***************************************************************************)
Rows(list) == {list[n] : n \in 1..Len(list)}

\* a successful save adds one row with the given title, file name, content and
\* owner, created not before the save started
SaveEffect ==
    (last'.op = "save" /\ last'.ok) =>
        \E r \in transcripts' :
            /\ r \notin transcripts
            /\ transcripts' = transcripts \cup {r}
            /\ r.id = last'.id
            /\ r.owner_id = last'.uid
            /\ r.title = last'.doc.title
            /\ r.original_filename = last'.doc.filename
            /\ r.content = last'.doc.content
            /\ r.created_at >= now

\* a row stays in the table until a delete of its id succeeds
RowsPersist ==
    \A r \in transcripts :
        r \in transcripts' \/ (last'.op = "delete" /\ last'.ok /\ last'.id = r.id)

\* a listing holds each row of the owner once, created_at not increasing
ListEffect ==
    last'.op = "list" =>
        /\ Rows(last'.rows) = {t \in transcripts : t.owner_id = last'.uid}
        /\ Len(last'.rows) = Cardinality(Rows(last'.rows))
        /\ transcripts' = transcripts
        /\ \A a, b \in 1..Len(last'.rows) :
            a < b => last'.rows[a].created_at >= last'.rows[b].created_at

\* in a listing every row saved later stands before every row saved earlier
NewBeforeEarlierSaved ==
    last'.op = "list" =>
        \A a, b \in 1..Len(last'.rows) :
            last'.rows[a].serial > last'.rows[b].serial => a < b

\* in a listing a row saved later stands before every row saved earlier whose
\* created_at is strictly earlier
NewBeforeOlder ==
    last'.op = "list" =>
        \A a, b \in 1..Len(last'.rows) :
            /\ last'.rows[a].serial > last'.rows[b].serial => 
                    last'.rows[a].created_at >= last'.rows[b].created_at
            /\ (last'.rows[a].serial > last'.rows[b].serial
                    /\ last'.rows[a].created_at > last'.rows[b].created_at) => a < b

\* C8 as stated: after a successful save every later listing of the owner holds
\* the new row (title, file name, content, created_at not before the save
\* started) until it is deleted, ordered by created_at descending, so that the
\* new row stands before every row of that owner saved earlier.
C8_SavedListedFirst ==
    [][SaveEffect /\ RowsPersist /\ ListEffect /\ NewBeforeEarlierSaved]_vars

\* C8 amended: as C8, but the new row stands before every row of that owner
\* whose created_at is strictly earlier; rows with equal created_at come in an
\* order the query does not determine.
C8_SavedListedBeforeOlder ==
    [][SaveEffect /\ RowsPersist /\ ListEffect /\ NewBeforeOlder]_vars

C8_Witness ==
    /\ last.op = "list"
    /\ Len(last.rows) = 2
    /\ last.rows[1].serial = 2
    /\ last.rows[1].created_at > last.rows[2].created_at
    /\ last.rows[1].title = "t2"
    /\ last.rows[2].title = "t1"

\* a delete of an existing id returns True, removes the row with that id and
\* leaves the listings of every other owner as they were; a delete of an id no
\* row has returns False and changes nothing
DeleteEffect ==
    last'.op = "delete" =>
        IF \E t \in transcripts : t.id = last'.id
        THEN /\ last'.ok
             /\ \A t \in transcripts' : t.id # last'.id
             /\ \A t \in transcripts : t.id = last'.id => gone'.owner_id = t.owner_id
             /\ gone'.id = last'.id
             /\ \A v \in users : v.id # gone'.owner_id => Listings(v.id)' = Listings(v.id)
        ELSE /\ ~last'.ok
             /\ transcripts' = transcripts
             /\ users' = users

\* no listing of the owner holds the id deleted last
DeletedIdNeverListed ==
    (last'.op = "list" /\ last'.uid = gone'.owner_id) =>
        \A n \in 1..Len(last'.rows) : last'.rows[n].id # gone'.id

\* a row that is not in the table enters it only by a save, as a new row: a
\* deleted row never comes back, though its id can be given to a new row
DeletedRowNeverBack ==
    \A r \in transcripts' :
        r \notin transcripts => (last'.op = "save" /\ last'.ok /\ r.serial > saves)

\* C9 as stated: after a successful delete no later listing of the owner holds
\* that id, the listings of the other users are unchanged, and a delete of an
\* unknown id returns False and leaves the store unchanged.
C9_DeletedIdGone ==
    [][DeleteEffect /\ ListEffect /\ DeletedIdNeverListed]_vars

\* C9 amended: after a successful delete no later listing holds the deleted
\* row (a later save can give its id to a new row, which is then listed), the
\* listings of the other users are unchanged, and a delete of an unknown id
\* returns False and leaves the store unchanged.
C9_DeletedRowGone ==
    [][DeleteEffect /\ ListEffect /\ DeletedRowNeverBack]_vars

C9_Witness ==
    /\ last.op = "delete"
    /\ last.ok
    /\ gone.id = last.id
    /\ Cardinality(users) = 2
    /\ \A t \in transcripts : t.id # gone.id
    /\ \E t \in transcripts : t.owner_id # gone.owner_id

UniqueUsernames == \A u1, u2 \in users : u1.username = u2.username => u1 = u2

\* C10: add_new_user with an existing username returns (False, "User already
\* exists.") and leaves the users table unchanged; with a new username it adds
\* exactly one user and returns True; no two users ever share a username.
C10_AddNewUser ==
    [][/\ last'.op = "add_new_user" =>
            IF \E u \in users : u.username = last'.name
            THEN /\ ~last'.ok
                 /\ last'.msg = "User already exists."
                 /\ users' = users
            ELSE /\ last'.ok
                 /\ Cardinality(users') = Cardinality(users) + 1
                 /\ \E n \in users' :
                        /\ n \notin users
                        /\ users' = users \cup {n}
                        /\ n.username = last'.name
       /\ UniqueUsernames'
       /\ last'.op # "add_new_user" => users' = users]_vars

C10_Witness ==
    /\ last.op = "add_new_user"
    /\ ~last.ok
    /\ last.msg = "User already exists."
    /\ Cardinality(users) = 2

(***************************************************************************)
(* Properties of the sessions.  A successful save is the step that raises  *)
(* saves; a delete is the step that removes a row.                         *)
(***************************************************************************)
\* C11: every successful save adds exactly one new record, with an id no stored
\* record has, for the session's user and with the session's transcript; every
\* stored record keeps its id, title, file name, content and created_at, also
\* when the transcript saved was loaded from a stored record and then edited and
\* retitled.
C11_SaveAddsNewRecord ==
    [][/\ saves' # saves =>
            \E r \in transcripts' :
                /\ r \notin transcripts
                /\ transcripts' = transcripts \cup {r}
                /\ \A t \in transcripts : t.id # r.id
                /\ \E s \in Sessions :
                        /\ r.owner_id = sess[s].user_id
                        /\ r.content = sess[s].transcript_data.v
                        /\ r.title = sess'[s].current_transcript_title
       /\ \A t \in transcripts : t \in transcripts']_vars

\* the transcript of the session was loaded from record r1, edited and saved
\* under another title as record r2
C11_Witness ==
    \E r1, r2 \in transcripts :
        /\ r1.serial = sess["s1"].loaded.serial
        /\ r2.serial > r1.serial
        /\ r2.id # r1.id
        /\ r2.title # r1.title
        /\ r2.content # r1.content
        /\ sess["s1"].current_transcript_title = r2.title
        /\ sess["s1"].transcript_data = Some(r2.content)

\* the steps of the delete dialog, seen from the session state
Asked(s) == sess[s].delete_confirmation_id > 0
Removed == transcripts \ transcripts'

\* a click on a delete button deletes nothing; "Cancel" (the id goes back to None
\* in a run that is not a "Yes, Delete") deletes nothing; the session of a
\* confirmed delete has delete_confirmation_id None afterwards
DialogSteps ==
    /\ \A s \in Sessions :
        /\ (sess'[s].delete_confirmation_id > 0
                /\ sess'[s].delete_confirmation_id # sess[s].delete_confirmation_id)
            => transcripts' = transcripts
        /\ (Asked(s) /\ sess'[s].delete_confirmation_id = 0 /\ sess[s].pending = 0)
            => transcripts' = transcripts
    /\ \A t \in Removed :
        \E s \in Sessions : sess[s].pending = t.id /\ sess'[s].delete_confirmation_id = 0

SameButText(a, b) ==
    /\ Len(a) = Len(b)
    /\ \A k \in 1..Len(a) :
        /\ b[k].id = a[k].id
        /\ b[k].time_sec = a[k].time_sec
        /\ b[k].timestamp = a[k].timestamp
        /\ b[k].speaker = a[k].speaker

\* C13: in a run that turns translate_mode on with no translation in the session,
\* an API answer of another length than the segment list, or one that is not
\* JSON, makes _translate_text_with_gemini return None: translated_data stays
\* None, transcript_data is unchanged and the list displayed and exported is
\* transcript_data; an answer of the same length gives a list of the same length
\* whose elements keep id, time_sec, timestamp and speaker and carry the
\* translated texts.
C13_TranslationMismatch ==
    \A s \in Sessions :
        (LoggedIn(s) /\ Truthy(sess[s].transcript_data) /\ sess[s].translated_data.isNone) =>
            \A o \in TranslateOutcomes :
                LET data == sess[s].transcript_data.v
                    toggled == [sess[s] EXCEPT !.translate_mode = TRUE]
                    result == _translate_text_with_gemini(data, o)
                    after == Translated(toggled, o)
                IN  IF o = "malformed" \/ Len(translated_texts(Len(data), o)) # Len(data)
                    THEN /\ result = NoneData
                         /\ after.translated_data = NoneData
                         /\ after.transcript_data = sess[s].transcript_data
                         /\ display_data(after) = data
                    ELSE /\ ~result.isNone
                         /\ SameButText(data, result.v)
                         /\ \A k \in 1..Len(data) :
                                result.v[k].text = translated_texts(Len(data), o)[k]
                         /\ after.translated_data = result
                         /\ after.transcript_data = sess[s].transcript_data
                         /\ display_data(after) = result.v

\* a translation was asked for and refused: translate_mode is on and the session
\* still has no translation of its two segments
C13_Witness ==
    /\ LoggedIn("s1")
    /\ sess["s1"].translate_mode
    /\ sess["s1"].translated_data.isNone
    /\ Len(sess["s1"].transcript_data.v) = 2

(***************************************************************************)
(* Order of the parsed segments.                                           *)
(***************************************************************************)
\* the times of the tags of a text, in the order of the text
TagTimes(txt) ==
    LET at == {p \in 1..Len(txt) : IsTag(txt[p])}
        nth(k) == CHOOSE p \in at : Cardinality({r \in at : r <= p}) = k
    IN  [k \in 1..Cardinality(at) |-> TagMs(txt[nth(k)])]

Ascending(times) == \A k \in 1..(Len(times) - 1) : times[k] <= times[k + 1]

\* the answer of one call has its tags in ascending order and, for a chunk of a
\* longer audio, below the length of a chunk
InOrder(o) ==
    o.kind = "text" =>
        /\ Ascending(TagTimes(o.text))
        /\ num_chunks > 0 =>
                \A k \in 1..Len(TagTimes(o.text)) : TagTimes(o.text)[k] < CHUNK_LENGTH_MS

SegmentTimes == [k \in 1..Len(transcript_data.v) |-> transcript_data.v[k].time_sec]

\* C14 as stated: the parsed segment list is ordered by time_sec ascending.
C14_SegmentsAscending ==
    pc = "done" => Ascending(SegmentTimes)

\* C14: the parsed segments are in the order of their entries in the text,
\* numbered from 0; their time_sec values are ascending when every answer of the
\* API had its tags in ascending order and below the length of a chunk.
C14_SegmentsInTextOrder ==
    pc = "done" =>
        /\ \A k \in 1..Len(transcript_data.v) : transcript_data.v[k].id = k - 1
        /\ \E f \in [1..Len(SegmentTimes) -> 1..Len(TagTimes(raw_transcription))] :
                /\ \A k \in 1..(Len(SegmentTimes) - 1) : f[k] < f[k + 1]
                /\ \A k \in 1..Len(SegmentTimes) :
                        SegmentTimes[k] = TagTimes(raw_transcription)[f[k]]
        /\ (\A k \in 1..Len(raws) : InOrder(raws[k])) => Ascending(SegmentTimes)

\* two chunks answered in order give three segments of increasing time
C14_Witness ==
    /\ pc = "done"
    /\ num_chunks = 2
    /\ \A k \in 1..Len(raws) : InOrder(raws[k])
    /\ Len(SegmentTimes) = 3
    /\ SegmentTimes[1] < SegmentTimes[2]
    /\ SegmentTimes[2] < SegmentTimes[3]

(***************************************************************************)
(* Two calls of add_new_user at once.                                      *)
(***************************************************************************)
\* both calls have ended, for the same name, and the test of line 62 found the
\* name in neither of them: both tests came before either commit
BothPassedCheck(s, o) ==
    /\ s # o
    /\ adds[s].pc = "done" /\ adds[o].pc = "done"
    /\ adds[s].name = adds[o].name
    /\ adds[s].result # "exists" /\ adds[o].result # "exists"

\* C15: when both existence checks of two calls of add_new_user for one new name
\* come before either commit, neither call raises, exactly one of them creates
\* the user and the table ends with exactly one user of the name.
C15_ConcurrentAddsBothReturn ==
    \A s, o \in Sessions :
        BothPassedCheck(s, o) =>
            /\ adds[s].result # "raised" /\ adds[o].result # "raised"
            /\ (adds[s].result = "created") # (adds[o].result = "created")
            /\ Cardinality({u \in users : u.username = adds[s].name}) = 1

(***************************************************************************)
(* The upload check.                                                       *)
(***************************************************************************)
\* C16: the upload check of a file whose identifier differs from
\* last_uploaded_file_id leaves transcript_data None, speaker_map empty,
\* translate_mode and edit_mode False, translated_data None and
\* last_uploaded_file_id equal to the new identifier; with an equal identifier
\* it changes none of them.
C16_UploadCheckResets ==
    \A s \in Sessions, file_id \in FileIds :
        LoggedIn(s) =>
            LET checked == UploadCheck(sess[s], file_id)
            IN  IF file_id # sess[s].last_uploaded_file_id
                THEN /\ checked.transcript_data = NoneData
                     /\ checked.speaker_map = {}
                     /\ ~checked.translate_mode
                     /\ ~checked.edit_mode
                     /\ checked.translated_data = NoneData
                     /\ checked.last_uploaded_file_id = file_id
                ELSE checked = sess[s]

(***************************************************************************)
(* The login gate.                                                         *)
(***************************************************************************)
\* the user a session is logged in as: a row of users that has the session's
\* user_id, username and role and whose hash matches the password entered
LoggedInAs(ss) ==
    {u \in users : /\ u.id = ss.user_id
                   /\ u.username = ss.username
                   /\ u.role = ss.role
                   /\ check_password(u, ss.entered)}

\* C17: a session that is not authenticated changes nothing but by a login, and
\* a login makes it authenticated as a user whose name and password hash match
\* what was entered, with that user's user_id, username and role; the store
\* changes only in a step of an authenticated session, and the users table only
\* in a step of a session whose role is 'admin'.
C17_LoginGate ==
    [][/\ \A s \in Sessions :
            /\ (~sess[s].authenticated /\ sess'[s] # sess[s]) =>
                    /\ sess'[s].authenticated
                    /\ sess'[s] = [sess[s] EXCEPT !.authenticated = TRUE,
                                                  !.user_id = sess'[s].user_id,
                                                  !.username = sess'[s].username,
                                                  !.role = sess'[s].role,
                                                  !.entered = sess'[s].entered]
            /\ sess'[s].authenticated => LoggedInAs(sess'[s]) # {}
       /\ (transcripts' # transcripts \/ users' # users) =>
            \E s \in Sessions : sess[s].authenticated /\ LoggedInAs(sess[s]) # {}
       /\ users' # users =>
            \E s \in Sessions : sess[s].authenticated /\ sess[s].role = "admin"]_vars

\* a user added by the admin has logged in and saved a transcript
C17_Witness ==
    /\ sess["s1"].authenticated
    /\ sess["s1"].role = "user"
    /\ LoggedInAs(sess["s1"]) # {}
    /\ \E t \in transcripts : t.owner_id = sess["s1"].user_id

(***************************************************************************)
(* The translation and the transcript it belongs to.                       *)
(***************************************************************************)
\* C18: whenever translated_data is not None it has the segments of the current
\* transcript_data: as many, with the same ids, time_sec and speakers in the
\* same order.
C18_TranslationOfCurrent ==
    \A s \in Sessions :
        ~sess[s].translated_data.isNone =>
            /\ ~sess[s].transcript_data.isNone
            /\ LET data == sess[s].transcript_data.v
                   translated == sess[s].translated_data.v
               IN  /\ Len(translated) = Len(data)
                   /\ \A k \in 1..Len(data) :
                        /\ translated[k].id = data[k].id
                        /\ translated[k].time_sec = data[k].time_sec
                        /\ translated[k].speaker = data[k].speaker

(***************************************************************************)
(* Logout.                                                                 *)
(***************************************************************************)
\* what a session shows of a user's work
Cleared(ss) ==
    /\ ss.user_id = 0 /\ ss.username = NoneStr /\ ss.role = NoneStr
    /\ ss.transcript_data = NoneData
    /\ ss.translated_data = NoneData
    /\ ss.speaker_map = {}
    /\ ss.delete_confirmation_id = NoKey

\* C19: a logout leaves the session in its initial state: authenticated False,
\* user_id, username and role None, transcript_data and translated_data None,
\* speaker_map empty and no delete confirmation; a session that is not
\* authenticated stays so until a login, which finds no transcript, speaker name
\* or pending delete confirmation, and the My Transcripts page does nothing in it.
C19_LogoutClearsSession ==
    [][\A s \in Sessions :
        /\ (sess[s].authenticated /\ ~sess'[s].authenticated) => sess'[s] = SessionInit
        /\ ~sess'[s].authenticated => Cleared(sess'[s])
        /\ (~sess[s].authenticated /\ sess'[s] # sess[s]) =>
                /\ sess'[s].authenticated
                /\ sess'[s].transcript_data = NoneData
                /\ sess'[s].translated_data = NoneData
                /\ sess'[s].speaker_map = {}
                /\ sess'[s].delete_confirmation_id = NoKey
                /\ transcripts' = transcripts]_vars

\* the admin has saved a transcript and logged out, and the user who logged in
\* next in the session finds it empty
C19_Witness ==
    /\ sess["s1"].authenticated
    /\ sess["s1"].user_id = 2
    /\ \E t \in transcripts : t.owner_id = 1
    /\ sess["s1"].transcript_data = NoneData
    /\ sess["s1"].speaker_map = {}
    /\ sess["s1"].delete_confirmation_id = NoKey

(***************************************************************************)
(* Owner isolation.                                                        *)
(***************************************************************************)
\* a step of session s loads a stored row, or saves row r, as the session's user
LoadsOwn(s) ==
    (sess'[s].loaded # sess[s].loaded /\ sess'[s].loaded # NotLoaded) =>
        /\ sess[s].authenticated
        /\ sess'[s].loaded.owner_id = sess[s].user_id
SavesOwn(r) ==
    \E s \in Sessions :
        /\ sess[s].authenticated
        /\ r.owner_id = sess[s].user_id
        /\ r.content # <<>>
\* row t is deleted by the "Yes, Delete" run of a session
DeletedBy(s, t) ==
    /\ sess[s].authenticated
    /\ sess[s].pending = t.id
    /\ sess'[s].pending = 0

\* C20: a session logged in as user u loads and deletes only transcripts whose
\* owner_id is u's id, and every transcript it saves has owner_id equal to u's
\* id and non-empty content.
C20_OwnerIsolation ==
    [][/\ \A s \in Sessions : LoadsOwn(s)
       /\ \A r \in transcripts' \ transcripts : SavesOwn(r)
       /\ \A t \in Removed :
            \E s \in Sessions : DeletedBy(s, t) /\ t.owner_id = sess[s].user_id]_vars

\* what holds of every step: loads and saves are the session user's own, and a
\* row is deleted only by the "Yes, Delete" run of an authenticated session
C20_LoadsAndSavesOwn ==
    [][/\ \A s \in Sessions : LoadsOwn(s)
       /\ \A r \in transcripts' \ transcripts : SavesOwn(r)
       /\ \A t \in Removed : \E s \in Sessions : DeletedBy(s, t)]_vars

(***************************************************************************)
(* Which chunks the loop counts as failed.                                 *)
(***************************************************************************)
\* the j-th call raised, returned nothing, or returned a text with "Error:" in
\* it (the message of line 170 is such a text)
CountedAsFailed(j) ==
    \/ raws[j].kind = "raise"
    \/ raws[j].kind = "blocked"
    \/ /\ raws[j].kind = "text"
       /\ \/ raws[j].text = <<>>
          \/ CountKind(raws[j].text, "err") > 0

\* C21: in the multi-chunk loop the entry of a chunk is the sentinel, with
\* nothing of the returned text in it, exactly when _transcribe_chunk raised,
\* returned an empty result or returned a text containing "Error:" anywhere;
\* the entry of every other chunk is its returned text with the tags offset.
C21_FailedExactlyWhen ==
    /\ Len(raws) >= Len(all_transcriptions)
    /\ \A j \in 1..Len(all_transcriptions) :
        LET entry == all_transcriptions[j]
            start_ms == (j - 1) * CHUNK_LENGTH_MS
        IN  IF CountedAsFailed(j)
            THEN /\ IsSentinelAt(entry, start_ms)
                 /\ \A kind \in {"hello", "world", "err", "reason", "d1", "d2"} :
                        CountKind(entry, kind) = 0
            ELSE /\ IsOffsetOf(entry, raws[j].text, start_ms)
                 /\ CountKind(entry, "failed") = 0
    /\ (Returned /\ MultiChunk) =>
            CountKind(raw_transcription, "failed")
                = Cardinality({j \in 1..Len(raws) : CountedAsFailed(j)})

\* three chunks: a returned text with "Error:" in its middle is discarded, a
\* clean text is kept and a call that raised is replaced
C21_Witness ==
    /\ Returned /\ MultiChunk
    /\ num_chunks = 3
    /\ raws[1].kind = "text"
    /\ raws[1].text # <<>>
    /\ raws[1].text[1].k = "tag"
    /\ CountKind(raws[1].text, "err") = 1
    /\ IsSentinelAt(all_transcriptions[1], 0)
    /\ Kept(2)
    /\ IsOffsetOf(all_transcriptions[2], raws[2].text, CHUNK_LENGTH_MS)
    /\ Raised(3)
    /\ IsSentinelAt(all_transcriptions[3], 2 * CHUNK_LENGTH_MS)

====
